---- MODULE Spec2Model ----
(***************************************************************************)
(* SpendWise: the AccountChart component                                   *)
(* (src/app/(main)/account/_components/account-chart.tsx).                 *)
(*                                                                         *)
(* An instant is a record [day, ms]: the local civil day counted from      *)
(* 1970-01-01 and the millisecond within that day.  All date-fns calls of  *)
(* the component (startOfDay, endOfDay, subDays, format) and the Date      *)
(* constructor without a zone work on the local calendar, so one local     *)
(* time line is enough; its origin is taken to be the epoch.  Amounts are  *)
(* whole numbers of the smallest currency unit.                            *)
(***************************************************************************)
EXTENDS Integers, Sequences, FiniteSets, TLC

VARIABLES
    transactions,   \* the transactions prop (line 61)
    dateRange,      \* useState, line 62
    clock,          \* the system clock that new Date() reads
    dateParse,      \* how the engine's Date parses a string without a year
    now,            \* line 66, as read by the last run of the memo
    startDate,      \* lines 67-69, of the last run of the memo
    filtered,       \* lines 72-74, of the last run of the memo
    filteredData,   \* the memoized value, lines 64-96
    totals,         \* the memoized value, lines 99-107
    renderError,    \* what the last render threw, "none" if nothing
    heap,           \* the objects the memos allocate and write, by address
    transactionsRef,    \* the address of the array held by transactions
    filteredDataRef,    \* the address of the array held by filteredData
    totalsRef,      \* the address of the object held by totals
    returned,       \* every array the first memo returned, as it was then
    transactionResult,  \* useFetch: data, the last response, Undefined before any
    loading,        \* useFetch: the loading flag
    error,          \* useFetch: "null" or "Error"
    awaiting,       \* the calls of fn that are at their await
    started,        \* the calls of fn made so far
    errorToasts,    \* the toast.error calls made so far
    editMode,       \* the form edits a transaction (edit=<id> in the URL)
    mounted,        \* the form is on the page
    fields,         \* the form's values: "defaults" or "edited"
    successToasts,  \* the toast.success calls the effect made so far
    pushed,         \* the account of the last router.push, "none" before any
    effectBy        \* how the call ended whose settling last fired the effect

chartVars == <<transactions, dateRange, clock, dateParse, now, startDate,
               filtered, filteredData, totals, renderError>>

heapVars == <<heap, transactionsRef, filteredDataRef, totalsRef, returned>>

fetchVars == <<transactionResult, loading, error, awaiting, started, errorToasts>>

formVars == <<editMode, mounted, fields, successToasts, pushed, effectBy>>

pageVars == <<fetchVars, formVars>>

vars == <<chartVars, heapVars, pageVars>>

---------------------------------------------------------------------------
(* Bounds of the model. *)

MaxTx == 2

MaxTicks == 1

\* Runs of the memos after the first render, where the heap is followed.
MaxRuns == 2

\* Calls of fn on one useFetch.
MaxCalls == 4

---------------------------------------------------------------------------
(* The proleptic Gregorian calendar that Date and date-fns compute with. *)

\* Day number of the civil date y-m-d; d may lie outside the month, as in
\* Date.prototype.setDate and in the Date constructor (it carries over).
DaysFromCivil(y, m, d) ==
    LET yy  == IF m <= 2 THEN y - 1 ELSE y
        era == yy \div 400
        yoe == yy - era * 400
        mp  == IF m > 2 THEN m - 3 ELSE m + 9
        doy == (153 * mp + 2) \div 5 + d - 1
        doe == yoe * 365 + yoe \div 4 - yoe \div 100 + doy
    IN  era * 146097 + doe - 719468

\* The civil date of a day number: getFullYear, getMonth + 1, getDate.
CivilFromDays(z) ==
    LET zz  == z + 719468
        era == zz \div 146097
        doe == zz - era * 146097
        yoe == (doe - doe \div 1460 + doe \div 36524 - doe \div 146096) \div 365
        doy == doe - (365 * yoe + yoe \div 4 - yoe \div 100)
        mp  == (5 * doy + 2) \div 153
        d   == doy - (153 * mp + 2) \div 5 + 1
        m   == IF mp < 10 THEN mp + 3 ELSE mp - 9
    IN  [y |-> IF m <= 2 THEN yoe + era * 400 + 1 ELSE yoe + era * 400,
         m |-> m, d |-> d]

At(y, m, d, ms) == [day |-> DaysFromCivil(y, m, d), ms |-> ms]

InvalidDate == [nan |-> TRUE]

IsValid(date) == "day" \in DOMAIN date

\* a <= b and a >= b on Date values (lines 73, 94 compare time values).  The
\* time value of an Invalid Date is NaN, and every comparison with NaN is
\* false.
Le(a, b) ==
    /\ IsValid(a)
    /\ IsValid(b)
    /\ (a.day < b.day \/ (a.day = b.day /\ a.ms <= b.ms))

Lt(a, b) ==
    /\ IsValid(a)
    /\ IsValid(b)
    /\ (a.day < b.day \/ (a.day = b.day /\ a.ms < b.ms))

---------------------------------------------------------------------------
(* date-fns *)

startOfDay(date) == [day |-> date.day, ms |-> 0]

endOfDay(date) == [day |-> date.day, ms |-> 86399999]

\* subDays(date, amount) = addDays(date, -amount): setDate(getDate() - amount).
subDays(date, amount) ==
    LET c == CivilFromDays(date.day)
    IN  [day |-> DaysFromCivil(c.y, c.m, c.d - amount), ms |-> date.ms]

MonthAbbr ==
    <<"Jan", "Feb", "Mar", "Apr", "May", "Jun",
      "Jul", "Aug", "Sep", "Oct", "Nov", "Dec">>

Digit == <<"0", "1", "2", "3", "4", "5", "6", "7", "8", "9">>

\* The text "MMM dd" of month m, day d.
Label(m, d) ==
    MonthAbbr[m] \o " " \o Digit[(d \div 10) + 1] \o Digit[(d % 10) + 1]

\* format(date, "MMM dd"): month abbreviation and two-digit day; no year.
format(date) ==
    LET c == CivilFromDays(date.day)
    IN  Label(c.m, c.d)

---------------------------------------------------------------------------
(* Date *)

\* new Date(t.date): t.date is the ISO text of an instant, held here as its
\* fields [y, m, d, ms]; parsing computes the instant from the fields, and
\* gives an Invalid Date when a field is out of range.
NewDate(iso) ==
    IF iso.m \in 1..12 /\ iso.d \in 1..31 /\ iso.ms \in 0..86399999
    THEN [day |-> DaysFromCivil(iso.y, iso.m, iso.d), ms |-> iso.ms]
    ELSE InvalidDate

\* The month and day that a "MMM dd" text names.
MonthDayOf ==
    [text \in {Label(m, d) : m \in 1..12, d \in 1..31} |->
        CHOOSE md \in (1..12) \X (1..31) : Label(md[1], md[2]) = text]

\* new Date(a.date) at line 94, where a.date is a "MMM dd" text.  A date
\* text without a year is outside the ISO format, so the result is up to
\* the engine: V8 and its like read the year as 2001 and let the day carry
\* over ("Feb 29" is 2001-03-01); a strict engine gives an Invalid Date.
NewDateFromLabel(text) ==
    IF dateParse = "year2001"
    THEN LET md == MonthDayOf[text]
         IN  [day |-> DaysFromCivil(2001, md[1], md[2]), ms |-> 0]
    ELSE InvalidDate

---------------------------------------------------------------------------
(* AccountChart *)

Presets == {"7D", "1M", "3M", "6M", "ALL"}

\* DATE_RANGES with the day count of "6M" short of a digit.
DATE_RANGES_ShortSixMonths ==
    [p \in Presets |->
        CASE p = "7D"  -> [label |-> "Last 7 Days",   days |-> <<7>>]
          [] p = "1M"  -> [label |-> "Last Month",    days |-> <<30>>]
          [] p = "3M"  -> [label |-> "Last 3 Months", days |-> <<90>>]
          [] p = "6M"  -> [label |-> "Last 6 Months", days |-> <<18>>]
          [] p = "ALL" -> [label |-> "All Time",      days |-> <<>>]]

\* days is <<n>> for a number n and <<>> for null.
DATE_RANGES ==
    [p \in Presets |->
        CASE p = "7D"  -> [label |-> "Last 7 Days",   days |-> <<7>>]
          [] p = "1M"  -> [label |-> "Last Month",    days |-> <<30>>]
          [] p = "3M"  -> [label |-> "Last 3 Months", days |-> <<90>>]
          [] p = "6M"  -> [label |-> "Last 6 Months", days |-> <<180>>]
          [] p = "ALL" -> [label |-> "All Time",      days |-> <<>>]]

\* The value of DATE_RANGES[key] for a key that the object lacks.
Undefined == [undefined |-> TRUE]

\* Lookup that falls back to the "ALL" entry for a key the object lacks.
RangeLookup_DefaultsToAll(key) ==
    IF key \in DOMAIN DATE_RANGES THEN DATE_RANGES[key] ELSE DATE_RANGES["ALL"]

\* DATE_RANGES[dateRange], line 65
RangeLookup(key) ==
    IF key \in DOMAIN DATE_RANGES THEN DATE_RANGES[key] ELSE Undefined

\* new Date(0)
Epoch == [day |-> 0, ms |-> 0]

\* StartDateOf without startOfDay on the fixed windows.
StartDateOf_NoStartOfDay(range, nw) ==
    IF range.days # <<>> /\ range.days[1] # 0
    THEN subDays(nw, range.days[1])
    ELSE startOfDay(Epoch)

\* lines 65-69: range.days is truthy unless it is null or 0.
StartDateOf(range, nw) ==
    IF range.days # <<>> /\ range.days[1] # 0
    THEN startOfDay(subDays(nw, range.days[1]))
    ELSE startOfDay(Epoch)

\* InRange with the end bound exclusive.
InRange_ExclusiveEnd(t, start, nw) ==
    LET date == NewDate(t.date)
    IN  Le(start, date) /\ Lt(date, endOfDay(nw))

\* the filter callback, line 73
InRange(t, start, nw) ==
    LET date == NewDate(t.date)
    IN  Le(start, date) /\ Le(date, endOfDay(nw))

\* Filter that keeps every transaction.
Filter_KeepsAll(txs, start, nw) == txs

\* transactions.filter(...), lines 72-74
Filter(txs, start, nw) == SelectSeq(txs, LAMBDA t : InRange(t, start, nw))

\* One step of the reduce callback, lines 78-89.  acc is the object grouped,
\* held as the sequence of its values in key insertion order.
GroupStep(acc, transaction) ==
    LET date == format(NewDate(transaction.date))
        acc1 == IF \E i \in 1..Len(acc) : acc[i].date = date
                THEN acc
                ELSE Append(acc, [date |-> date, income |-> 0, expense |-> 0,
                                  hasBoth |-> FALSE])
        k    == CHOOSE i \in 1..Len(acc1) : acc1[i].date = date
        b    == acc1[k]
    IN  IF transaction.type = "INCOME"
        THEN [acc1 EXCEPT ![k] =
                 [b EXCEPT !.income = b.income + transaction.amount,
                           !.hasBoth = b.expense > 0]]
        ELSE [acc1 EXCEPT ![k] =
                 [b EXCEPT !.expense = b.expense + transaction.amount,
                           !.hasBoth = b.income > 0]]

RECURSIVE Group(_, _)
\* filtered.reduce(..., {}), lines 77-90
Group(acc, txs) ==
    IF txs = <<>> THEN acc ELSE Group(GroupStep(acc, Head(txs)), Tail(txs))

\* The comparator of line 94: the sign of the difference of the two time
\* values, or "NaN" when either Date is invalid.
compareFn(a, b) ==
    LET da == NewDateFromLabel(a.date)
        db == NewDateFromLabel(b.date)
    IN  IF ~IsValid(da) \/ ~IsValid(db) THEN "NaN"
        ELSE IF Lt(da, db) THEN "neg"
        ELSE IF Lt(db, da) THEN "pos"
        ELSE "zero"

RECURSIVE InsertSorted(_, _)
\* x goes before the trailing elements that compare greater than x; a NaN
\* from the comparator counts as 0 (SortCompare), so x stays behind them.
InsertSorted(s, x) ==
    IF s # <<>> /\ compareFn(s[Len(s)], x) = "pos"
    THEN Append(InsertSorted(SubSeq(s, 1, Len(s) - 1), x), s[Len(s)])
    ELSE Append(s, x)

RECURSIVE SortFrom(_, _)
SortFrom(done, rest) ==
    IF rest = <<>> THEN done
    ELSE SortFrom(InsertSorted(done, Head(rest)), Tail(rest))

\* Object.values(grouped).sort(...), lines 93-95: Array.prototype.sort is
\* stable.
Sort(values) == SortFrom(<<>>, values)

\* The body of the first useMemo, lines 65-95.
FilteredDataOf(txs, range, nw) ==
    Sort(Group(<<>>, Filter(txs, StartDateOf(DATE_RANGES[range], nw), nw)))

RECURSIVE TotalsFrom(_, _)
TotalsFrom(acc, days) ==
    IF days = <<>> THEN acc
    ELSE TotalsFrom([income  |-> acc.income + Head(days).income,
                     expense |-> acc.expense + Head(days).expense],
                    Tail(days))

\* TotalsOf that keeps the net alone.
TotalsOf_NetOnly(data) ==
    LET t == TotalsFrom([income |-> 0, expense |-> 0], data)
    IN  [income |-> t.income - t.expense, expense |-> 0]

\* The body of the second useMemo, lines 100-106.
TotalsOf(data) == TotalsFrom([income |-> 0, expense |-> 0], data)

---------------------------------------------------------------------------
(* The inputs the model draws from. *)

\* The clock at mount: 2024-03-02 12:34:56.789.
ClockAtMount == {At(2024, 3, 2, 45296789)}

Tx(y, m, d, ms, type, amount) ==
    [date |-> [y |-> y, m |-> m, d |-> d, ms |-> ms],
     type |-> type, amount |-> amount]

\* The transactions a list is drawn from: the edges of the 7D window of
\* 2024-03-02 (first and last instant inside, last before, first after), a
\* leap day, the day after it at two times of day, that day a year earlier,
\* the last day of the year before, and the two sides of the epoch.
TxInputs ==
    { Tx(2024, 2, 23, 86399999, "EXPENSE", 2),
      Tx(2024, 2, 24, 0,        "INCOME",  1),
      Tx(2024, 3, 2,  86399999, "EXPENSE", 1),
      Tx(2024, 3, 3,  0,        "INCOME",  2),
      Tx(2024, 2, 29, 45296789, "INCOME",  2),
      Tx(2024, 3, 1,  0,        "EXPENSE", 2),
      Tx(2024, 3, 1,  86399999, "INCOME",  1),
      Tx(2023, 12, 31, 45296789, "EXPENSE", 1),
      Tx(2023, 3, 1,  45296789, "INCOME",  1),
      Tx(1970, 1, 1,  0,        "EXPENSE", 1),
      Tx(1969, 12, 31, 86399999, "INCOME", 2) }

---------------------------------------------------------------------------
(* The component as a state machine. *)

\* A render in which a dependency of the first memo changed: both memos run.
Recompute(txs, range) ==
    LET start == StartDateOf(RangeLookup(range), clock)
        kept  == Filter(txs, start, clock)
        data  == Sort(Group(<<>>, kept))
    IN  /\ now' = clock
        /\ startDate' = start
        /\ filtered' = kept
        /\ filteredData' = data
        /\ totals' = TotalsOf(data)

Init ==
    /\ transactions = <<>>
    /\ dateRange = "1M"
    /\ clock \in ClockAtMount
    /\ dateParse \in {"year2001", "invalid"}
    /\ now = clock
    /\ startDate = StartDateOf(DATE_RANGES["1M"], clock)
    /\ filtered = <<>>
    /\ filteredData = <<>>
    /\ totals = [income |-> 0, expense |-> 0]
    /\ renderError = "none"

\* onValueChange, line 115: setDateRange(value), then the render it causes.
\* Setting the state to the value it has causes no render.  The cast at
\* line 115 checks nothing: for a key that DATE_RANGES lacks, range is
\* undefined at line 65 and reading range.days at line 67 throws a
\* TypeError out of the render, before the memo has a new value.
SetDateRange(value) ==
    /\ renderError = "none"
    /\ value # dateRange
    /\ dateRange' = value
    /\ IF RangeLookup(value) = Undefined
       THEN /\ renderError' = "TypeError"
            /\ UNCHANGED <<now, startDate, filtered, filteredData, totals>>
       ELSE /\ renderError' = "none"
            /\ Recompute(transactions, value)
    /\ UNCHANGED <<transactions, clock, dateParse>>

\* The parent renders the chart with a new list that holds one more
\* transaction.
AddTransaction(t) ==
    /\ renderError = "none"
    /\ Len(transactions) < MaxTx
    /\ transactions' = Append(transactions, t)
    /\ Recompute(Append(transactions, t), dateRange)
    /\ UNCHANGED <<dateRange, clock, dateParse, renderError>>

\* A day passes while the chart stays mounted; nothing renders.
Tick ==
    /\ \E c \in ClockAtMount : clock.day < c.day + MaxTicks
    /\ clock' = [clock EXCEPT !.day = clock.day + 1]
    /\ UNCHANGED <<transactions, dateRange, dateParse, now, startDate,
                   filtered, filteredData, totals, renderError>>

\* The heap is left out of account.
NoHeap ==
    /\ heap = <<>>
    /\ transactionsRef = 0
    /\ filteredDataRef = 0
    /\ totalsRef = 0
    /\ returned = <<>>

\* The page has no transaction form.
NoForm ==
    /\ transactionResult = Undefined
    /\ loading = FALSE
    /\ error = "null"
    /\ awaiting = 0
    /\ started = 0
    /\ errorToasts = 0
    /\ editMode = FALSE
    /\ mounted = FALSE
    /\ fields = "defaults"
    /\ successToasts = 0
    /\ pushed = "none"
    /\ effectBy = "none"

\* The chart after its first render.
InitChart == Init /\ NoHeap /\ NoForm

Next ==
    \/ \E value \in Presets : SetDateRange(value) /\ UNCHANGED <<heapVars, pageVars>>
    \/ \E t \in TxInputs : AddTransaction(t) /\ UNCHANGED <<heapVars, pageVars>>
    \/ Tick /\ UNCHANGED <<heapVars, pageVars>>

Spec == InitChart /\ [][Next]_vars

---------------------------------------------------------------------------
(* The chart given records and keys that the types do not rule out. *)

\* Transactions as they may arrive: three well-formed ones inside the 7D
\* window, one with a date text that does not parse (month 13), and two
\* with a negative amount.
RawTxInputs ==
    { Tx(2024, 3, 1,  0,        "EXPENSE", 2),
      Tx(2024, 3, 1,  86399999, "INCOME",  1),
      Tx(2024, 2, 29, 45296789, "INCOME",  2),
      Tx(2024, 13, 1, 0,        "INCOME",  1),
      Tx(2024, 3, 1,  45296789, "EXPENSE", -1),
      Tx(2024, 2, 29, 0,        "INCOME",  -2) }

\* The strings onValueChange may be called with: value is typed string.
SelectValues == Presets \cup {"1Y"}

NextRaw ==
    \/ \E value \in SelectValues : SetDateRange(value) /\ UNCHANGED <<heapVars, pageVars>>
    \/ \E t \in RawTxInputs : AddTransaction(t) /\ UNCHANGED <<heapVars, pageVars>>

SpecRaw == InitChart /\ [][NextRaw]_vars

---------------------------------------------------------------------------
(* The same runs of the memos with the objects they allocate and write.    *)
(* The heap is a sequence of objects and an address is an index into it.   *)
(* An array is [items |-> ...], the object grouped is [keys |-> ...] with  *)
(* the addresses of its values in key insertion order.                     *)

\* filter that compacts the array it is called on and returns it.
HeapFilter_InPlace(h, txRef, start, nw) ==
    [heap |-> [h EXCEPT ![txRef] =
                  [items |-> SelectSeq(h[txRef].items,
                                       LAMBDA t : InRange(t, start, nw))]],
     ref  |-> txRef]

\* transactions.filter(...), lines 72-74: a new array.
HeapFilter(h, txRef, start, nw) ==
    [heap |-> Append(h, [items |-> SelectSeq(h[txRef].items,
                                             LAMBDA t : InRange(t, start, nw))]),
     ref  |-> Len(h) + 1]

\* Body applied to the value of an expression that is evaluated once.
Bind(value, Body(_)) == CHOOSE r \in {Body(v) : v \in {value}} : TRUE

\* One call of the reduce callback, lines 78-89: line 80 allocates the
\* bucket of a new key, lines 83-87 write the bucket in place.
HeapGroupStep(h, grouped, transaction) ==
    LET date == format(NewDate(transaction.date))
        keys == h[grouped].keys
    IN  Bind(IF \E i \in 1..Len(keys) : h[keys[i]].date = date
             THEN h
             ELSE [Append(h, [date |-> date, income |-> 0, expense |-> 0,
                              hasBoth |-> FALSE])
                      EXCEPT ![grouped] = [keys |-> Append(keys, Len(h) + 1)]],
             LAMBDA h1 :
                 LET k1 == h1[grouped].keys
                     a  == k1[CHOOSE i \in 1..Len(k1) : h1[k1[i]].date = date]
                     b  == h1[a]
                 IN  IF transaction.type = "INCOME"
                     THEN [h1 EXCEPT ![a] =
                              [b EXCEPT !.income = b.income + transaction.amount,
                                        !.hasBoth = b.expense > 0]]
                     ELSE [h1 EXCEPT ![a] =
                              [b EXCEPT !.expense = b.expense + transaction.amount,
                                        !.hasBoth = b.income > 0]])

RECURSIVE HeapGroup(_, _, _)
\* filtered.reduce(..., {}), lines 77-90, on the object at grouped.
HeapGroup(h, grouped, txs) ==
    IF txs = <<>> THEN h
    ELSE Bind(HeapGroupStep(h, grouped, Head(txs)),
              LAMBDA h1 : HeapGroup(h1, grouped, Tail(txs)))

\* Object.values(grouped).sort(...), lines 93-95: Object.values makes a new
\* array of the same bucket objects and sort orders that array in place.
HeapValuesSorted(h, grouped) ==
    LET keys == h[grouped].keys
    IN  Bind(Sort([i \in 1..Len(keys) |->
                      [date |-> h[keys[i]].date, addr |-> keys[i]]]),
             LAMBDA sorted :
                 [heap |-> Append(h, [items |-> [i \in 1..Len(keys) |->
                                                    sorted[i].addr]]),
                  ref  |-> Len(h) + 1])

\* The bucket sequence that the array at ref holds.
Deref(h, ref) == [i \in 1..Len(h[ref].items) |-> h[h[ref].items[i]]]

\* Both memos, lines 64-107, on the heap: the filtered array, the object
\* grouped (the {} of line 90), its buckets, the array of values, and the
\* object of the totals are all new.
HeapRun(h, txRef, range, nw) ==
    Bind(HeapFilter(h, txRef, StartDateOf(RangeLookup(range), nw), nw),
         LAMBDA f :
    Bind(HeapGroup(Append(f.heap, [keys |-> <<>>]), Len(f.heap) + 1,
                   f.heap[f.ref].items),
         LAMBDA h2 :
    Bind(HeapValuesSorted(h2, Len(f.heap) + 1),
         LAMBDA v :
             [heap   |-> Append(v.heap, TotalsOf(Deref(v.heap, v.ref))),
              data   |-> v.ref,
              totals |-> Len(v.heap) + 1])))

\* The heap part of a render that runs the memos on the array at txRef.
HeapRecompute(h, txRef, range) ==
    /\ Len(returned) <= MaxRuns
    /\ \E r \in {HeapRun(h, txRef, range, clock)} :
           /\ heap' = r.heap
           /\ transactionsRef' = txRef
           /\ filteredDataRef' = r.data
           /\ totalsRef' = r.totals
           /\ returned' = Append(returned,
                                 [ref |-> r.data, value |-> Deref(r.heap, r.data)])

\* The first render: the parent's empty array, then the memos.
InitHeap ==
    /\ Init
    /\ NoForm
    /\ \E r \in {HeapRun(<<[items |-> <<>>]>>, 1, "1M", clock)} :
           /\ heap = r.heap
           /\ transactionsRef = 1
           /\ filteredDataRef = r.data
           /\ totalsRef = r.totals
           /\ returned = <<[ref |-> r.data, value |-> Deref(r.heap, r.data)]>>

\* The transactions of the lists in the runs on the heap.
HeapTxInputs ==
    { Tx(2024, 2, 29, 45296789, "INCOME",  2),
      Tx(2024, 3, 1,  0,        "EXPENSE", 2),
      Tx(2024, 3, 1,  86399999, "INCOME",  1),
      Tx(2023, 12, 31, 45296789, "EXPENSE", 1) }

\* The parent allocates the new list; the chart renders with it.
HeapAddTransaction(t) ==
    /\ AddTransaction(t)
    /\ UNCHANGED pageVars
    /\ HeapRecompute(Append(heap, [items |-> Append(transactions, t)]),
                     Len(heap) + 1, dateRange)

HeapSetDateRange(value) ==
    /\ SetDateRange(value)
    /\ UNCHANGED pageVars
    /\ HeapRecompute(heap, transactionsRef, value)

NextHeap ==
    \/ \E value \in Presets : HeapSetDateRange(value)
    \/ \E t \in HeapTxInputs : HeapAddTransaction(t)

SpecHeap == InitHeap /\ [][NextHeap]_vars

---------------------------------------------------------------------------
(* useFetch and the transaction form that submits through it.              *)

\* The page has no chart.
NoChart ==
    /\ transactions = <<>>
    /\ dateRange = "1M"
    /\ clock = Epoch
    /\ dateParse = "invalid"
    /\ now = Epoch
    /\ startDate = Epoch
    /\ filtered = <<>>
    /\ filteredData = <<>>
    /\ totals = [income |-> 0, expense |-> 0]
    /\ renderError = "none"

\* What the server action resolves to.
Responses ==
    { [success |-> TRUE,  accountId |-> "acc1"],
      [success |-> TRUE,  accountId |-> "acc2"],
      [success |-> FALSE] }

\* The server action rejects.
Thrown == [thrown |-> TRUE]

Outcomes == Responses \cup {Thrown}

\* How a call ended.
KindOf(outcome) ==
    IF outcome = Thrown THEN "threw"
    ELSE IF outcome.success THEN "success" ELSE "failure"

\* useState of useFetch, lines 5-7.
InitFetch ==
    /\ transactionResult = Undefined
    /\ loading = FALSE
    /\ error = "null"
    /\ awaiting = 0
    /\ started = 0
    /\ errorToasts = 0

\* fn up to its await, lines 10-14.
FnCall ==
    /\ started < MaxCalls
    /\ started' = started + 1
    /\ awaiting' = awaiting + 1
    /\ loading' = TRUE
    /\ error' = "null"
    /\ UNCHANGED <<transactionResult, errorToasts>>

\* fn from its await on, lines 14-22: the try or the catch, then finally.
FnSettle(outcome) ==
    /\ awaiting > 0
    /\ awaiting' = awaiting - 1
    /\ IF outcome = Thrown
       THEN /\ error' = "Error"
            /\ errorToasts' = errorToasts + 1
            /\ UNCHANGED transactionResult
       ELSE /\ transactionResult' = outcome
            /\ error' = "null"
            /\ UNCHANGED errorToasts
    /\ loading' = FALSE
    /\ UNCHANGED started

\* A component calls fn.
Call ==
    /\ FnCall
    /\ UNCHANGED <<chartVars, heapVars, formVars>>

\* The callback of a call resolves or rejects.
Settle(outcome) ==
    /\ FnSettle(outcome)
    /\ UNCHANGED <<chartVars, heapVars, formVars>>

InitHook == NoChart /\ NoHeap /\ NoForm

NextFetch ==
    \/ Call
    \/ \E outcome \in Outcomes : Settle(outcome)

SpecFetch == InitHook /\ [][NextFetch]_vars

\* transactionResult?.success && !transactionLoading, line 194.
EffectCondition(result, transactionLoading) ==
    /\ "success" \in DOMAIN result
    /\ result.success
    /\ ~transactionLoading

\* The form as first rendered, to add or to edit a transaction.
InitForm ==
    /\ NoChart
    /\ NoHeap
    /\ InitFetch
    /\ editMode \in BOOLEAN
    /\ mounted = TRUE
    /\ fields = "defaults"
    /\ successToasts = 0
    /\ pushed = "none"
    /\ effectBy = "none"

\* The user changes a field.
EditFields ==
    /\ mounted
    /\ fields' = "edited"
    /\ fields # "edited"
    /\ UNCHANGED <<chartVars, heapVars, fetchVars,
                   editMode, mounted, successToasts, pushed, effectBy>>

\* The submit button, line 445, is disabled while loading; handleSubmit
\* calls onSubmit, lines 160-177, when the values pass the schema, which the
\* defaults of a new transaction do not. The effect runs after the render
\* with loading true and does nothing.
Submit ==
    /\ mounted
    /\ ~loading
    /\ editMode \/ fields = "edited"
    /\ FnCall
    /\ UNCHANGED <<chartVars, heapVars, formVars>>

\* The call settles; on the render that follows the effect of lines
\* 193-203 runs, as transactionLoading or transactionResult has changed.
SubmitSettles(outcome) ==
    /\ mounted
    /\ FnSettle(outcome)
    /\ IF (loading' # loading \/ outcome # Thrown)
          /\ EffectCondition(transactionResult', loading')
       THEN /\ successToasts' = successToasts + 1
            /\ fields' = "defaults"
            /\ pushed' = transactionResult'.accountId
            /\ effectBy' = KindOf(outcome)
       ELSE UNCHANGED <<fields, successToasts, pushed, effectBy>>
    /\ UNCHANGED <<chartVars, heapVars, editMode, mounted>>

\* The call settles after the form has left the page: the state of the
\* hook is gone, toast.error of line 18 is still called.
SettlesUnmounted(outcome) ==
    /\ ~mounted
    /\ awaiting > 0
    /\ awaiting' = awaiting - 1
    /\ errorToasts' = IF outcome = Thrown THEN errorToasts + 1 ELSE errorToasts
    /\ UNCHANGED <<chartVars, heapVars, formVars, transactionResult, loading, error, started>>

\* The navigation of router.push, line 201, completes.
Navigate ==
    /\ mounted
    /\ pushed # "none"
    /\ mounted' = FALSE
    /\ UNCHANGED <<chartVars, heapVars, fetchVars,
                   editMode, fields, successToasts, pushed, effectBy>>

NextForm ==
    \/ EditFields
    \/ Submit
    \/ \E outcome \in Outcomes : SubmitSettles(outcome)
    \/ \E outcome \in Outcomes : SettlesUnmounted(outcome)
    \/ Navigate

SpecForm == InitForm /\ [][NextForm]_vars

---------------------------------------------------------------------------
(* What the properties are stated with. *)

Range(s) == {s[i] : i \in 1..Len(s)}

\* The civil day of a transaction, and the key of the bucket it goes to.
DayOf(t) == NewDate(t.date).day

KeyOf(t) == format(NewDate(t.date))

\* The end of the window of the last run of the memo.
endDate == endOfDay(now)

InWindow(t) == Le(startDate, NewDate(t.date)) /\ Le(NewDate(t.date), endDate)

\* The civil days whose transactions went into bucket b.
DaysIn(b) == {DayOf(t) : t \in {u \in Range(filtered) : KeyOf(u) = b.date}}

RECURSIVE SumOf(_, _)
\* The sum of f[i] over the indices i in I.
SumOf(f, I) ==
    IF I = {} THEN 0
    ELSE LET i == CHOOSE x \in I : TRUE IN f[i] + SumOf(f, I \ {i})

\* The sum of the amounts of the entries of txs of one type on one day.
AmountOn(txs, day, type) ==
    SumOf([i \in 1..Len(txs) |-> txs[i].amount],
          {i \in 1..Len(txs) : txs[i].type = type /\ DayOf(txs[i]) = day})

Keys(data) == {data[i].date : i \in 1..Len(data)}

\* A bucket sequence without the hasBoth flags.
Core(data) ==
    [i \in 1..Len(data) |->
        [date |-> data[i].date, income |-> data[i].income,
         expense |-> data[i].expense]]

Permute(s, p) == [i \in 1..Len(s) |-> s[p[i]]]

Perms(n) == {p \in [1..n -> 1..n] : \A i, j \in 1..n : p[i] = p[j] => i = j}

---------------------------------------------------------------------------

\* C1: the bucket sequence is sorted strictly ascending by the calendar day
\* each bucket stands for, with no two buckets carrying the same key, also
\* when the transactions in the window span a year boundary.
C1_SortedByDay ==
    \A i, j \in 1..Len(filteredData) :
        i < j =>
            /\ filteredData[i].date # filteredData[j].date
            /\ \A di \in DaysIn(filteredData[i]), dj \in DaysIn(filteredData[j]) :
                   di < dj

\* C2: two transactions in the window go to the same bucket if and only if
\* their dates fall on the same civil day (year, month and day).
C2_OneDayPerBucket ==
    \A s, t \in Range(filtered) :
        (\E k \in 1..Len(filteredData) :
             KeyOf(s) = filteredData[k].date /\ KeyOf(t) = filteredData[k].date)
        <=> DayOf(s) = DayOf(t)

\* C3: every bucket's income is the sum of the amounts of the INCOME
\* transactions in the window on the bucket's day, and its expense the sum
\* of the EXPENSE ones; nothing is deduplicated.
C3_BucketSums ==
    \A k \in 1..Len(filteredData) :
        \A day \in DaysIn(filteredData[k]) :
            /\ filteredData[k].income = AmountOn(filtered, day, "INCOME")
            /\ filteredData[k].expense = AmountOn(filtered, day, "EXPENSE")

\* A transaction contributes to a bucket: the filter kept it and the bucket
\* of its key is in the sequence.
Contributes(t) ==
    /\ t \in Range(filtered)
    /\ \E k \in 1..Len(filteredData) : filteredData[k].date = KeyOf(t)

\* C4: a transaction contributes to some bucket if and only if
\* window.start <= date <= window.end, both bounds inclusive.
C4_InWindowIffCounted ==
    \A i \in 1..Len(transactions) :
        Contributes(transactions[i]) <=> InWindow(transactions[i])

\* C4 witness: a transaction dated exactly at window.start and one dated
\* exactly at window.end are both counted.
C4_Witness ==
    \E s, t \in Range(transactions) :
        /\ NewDate(s.date) = startDate
        /\ NewDate(t.date) = endDate
        /\ Contributes(s)
        /\ Contributes(t)

\* The day count the specification gives each fixed-window preset.
PresetDays == [p \in Presets \ {"ALL"} |->
                  CASE p = "7D" -> 7 [] p = "1M" -> 30
                    [] p = "3M" -> 90 [] p = "6M" -> 180]

\* The window the specification gives preset p at the instant nw.
WindowStart(p, nw) ==
    IF p = "ALL" THEN Epoch ELSE [day |-> nw.day - PresetDays[p], ms |-> 0]

WindowEnd(nw) == [day |-> nw.day, ms |-> 86399999]

\* Reference instants on which the calendar arithmetic of subDays borrows
\* from a month or a year, in leap and common years.
ProbeInstants ==
    { At(2024, 3, 1, 0), At(2023, 3, 1, 86399999), At(2024, 1, 1, 45296789),
      At(2024, 12, 31, 45296789), At(2000, 2, 29, 0), At(1970, 6, 30, 1) }

\* C5: for a day-count preset d, start is the start of the civil day of
\* now minus d days and end the end of the civil day of now; for ALL, start
\* is the epoch; in every case start <= end.
C5_WindowResolved ==
    /\ startDate = WindowStart(dateRange, now)
    /\ endDate = WindowEnd(now)
    /\ Le(startDate, endDate)
    /\ \A p \in Presets, nw \in ProbeInstants :
           /\ StartDateOf(DATE_RANGES[p], nw) = WindowStart(p, nw)
           /\ endOfDay(nw) = WindowEnd(nw)
           /\ Le(WindowStart(p, nw), WindowEnd(nw))

\* C5 witness: a three-month window that starts in the year before now,
\* resolved at an instant that is not a day boundary.
C5_Witness ==
    /\ dateRange = "3M"
    /\ now.ms \notin {0, 86399999}
    /\ CivilFromDays(startDate.day).y < CivilFromDays(now.day).y
    /\ filtered # <<>>

\* totals.income - totals.expense, lines 146 and 151.
Net == totals.income - totals.expense

\* C6: totals.income is the sum of income over the buckets of the current
\* sequence and totals.expense the sum of expense; net is their difference.
C6_TotalsAreBucketSums ==
    LET idx == 1..Len(filteredData)
        inc == SumOf([k \in idx |-> filteredData[k].income], idx)
        exp == SumOf([k \in idx |-> filteredData[k].expense], idx)
    IN  /\ totals.income = inc
        /\ totals.expense = exp
        /\ Net = inc - exp

\* C6 witness: several buckets, income and expense both present and
\* different.
C6_Witness ==
    /\ Len(filteredData) >= 2
    /\ totals.income > 0
    /\ totals.expense > 0
    /\ totals.income # totals.expense

\* Shorter windows first.
PresetOrder == <<"7D", "1M", "3M", "6M", "ALL">>

\* The civil days of the transactions that the filter keeps under preset p.
DaysCovered(p) ==
    {DayOf(t) : t \in Range(Filter(transactions,
                                   StartDateOf(DATE_RANGES[p], now), now))}

\* C7: for the same list and the same now, the days and the buckets of a
\* shorter fixed window are covered by every longer fixed window and by ALL.
\* Each window is compared with the next longer one; inclusion carries over
\* to every longer one.
C7_LongerWindowCovers ==
    \A i \in 1..(Len(PresetOrder) - 1) :
        /\ DaysCovered(PresetOrder[i]) \subseteq DaysCovered(PresetOrder[i + 1])
        /\ Keys(FilteredDataOf(transactions, PresetOrder[i], now))
               \subseteq Keys(FilteredDataOf(transactions, PresetOrder[i + 1], now))

\* C7 witness: the six-month window has a bucket, the three-month window
\* has none of it and ALL has more.
C7_Witness ==
    /\ Keys(FilteredDataOf(transactions, "3M", now)) # {}
    /\ Keys(FilteredDataOf(transactions, "3M", now))
           # Keys(FilteredDataOf(transactions, "1M", now))
    /\ Keys(FilteredDataOf(transactions, "ALL", now))
           # Keys(FilteredDataOf(transactions, "6M", now))

\* C8: the bucket sequence, its order and its sums, is the same for every
\* permutation of the transaction list.
C8_OrderIndependent ==
    \A p \in Perms(Len(transactions)) :
        Core(FilteredDataOf(Permute(transactions, p), dateRange, now))
            = Core(filteredData)

\* C9: every bucket has a transaction in the window contributing to it; a
\* list with no transaction in the window gives no bucket and zero totals.
C9_Sparse ==
    /\ \A k \in 1..Len(filteredData) :
           \E i \in 1..Len(transactions) :
               /\ InWindow(transactions[i])
               /\ KeyOf(transactions[i]) = filteredData[k].date
    /\ (\A i \in 1..Len(transactions) : ~InWindow(transactions[i]))
           => /\ filteredData = <<>>
              /\ totals = [income |-> 0, expense |-> 0]

\* C9 witness: a list of transactions that all lie outside the window.
C9_Witness ==
    /\ Len(transactions) >= 2
    /\ \A i \in 1..Len(transactions) : ~InWindow(transactions[i])
    /\ filteredData = <<>>
    /\ totals = [income |-> 0, expense |-> 0]

\* C10: across preset changes, list changes and the clock passing midnight,
\* the bucket sequence and the totals in use are the ones of the window of
\* the current day.
C10_FreshAcrossMidnight ==
    /\ filteredData = FilteredDataOf(transactions, dateRange, clock)
    /\ totals = TotalsOf(FilteredDataOf(transactions, dateRange, clock))

\* A record as the data model wants it: a date that parses, an amount that
\* is not negative.
WellFormed(t) == IsValid(NewDate(t.date)) /\ t.amount >= 0

\* C11: a transaction with an unparseable date or a negative amount is left
\* out of every bucket and of the totals, and the rest is aggregated as if
\* that record were absent; the report is not aborted.
C11_MalformedExcluded ==
    renderError = "none" =>
        LET good == FilteredDataOf(SelectSeq(transactions, WellFormed),
                                   dateRange, now)
        IN  /\ Core(filteredData) = Core(good)
            /\ totals = TotalsOf(good)

Owned(ref) == {ref} \cup Range(heap[ref].items)

\* C13: computing the buckets and the totals leaves the input list as it
\* was (same elements, order and field values) and writes to no bucket
\* sequence returned before: each run builds a new array of new buckets.
C13_InputsAndOldResultsUntouched ==
    /\ heap[transactionsRef].items = transactions
    /\ \A i \in 1..Len(returned) :
           Deref(heap, returned[i].ref) = returned[i].value
    /\ \A i, j \in 1..Len(returned) :
           i # j => Owned(returned[i].ref) \cap Owned(returned[j].ref) = {}
    /\ \A i \in 1..Len(returned) : transactionsRef \notin Owned(returned[i].ref)
    /\ Deref(heap, filteredDataRef) = filteredData
    /\ heap[totalsRef] = totals

\* C13 witness: the memos have run again on a list of two transactions
\* after returning a sequence with a bucket, and the sequence in use differs
\* from that one.
C13_Witness ==
    /\ Len(transactions) >= 2
    /\ \E i \in 1..Len(returned) :
           /\ returned[i].ref # filteredDataRef
           /\ returned[i].value # <<>>
           /\ returned[i].value # filteredData

\* C14: the effect's success toast, reset and router.push happen only on
\* the settling of a submission whose call returned success = true, also
\* after an earlier submission of the mounted form succeeded.
C14_SuccessEffectOnlyOnSuccess == effectBy \in {"none", "success"}

\* C15: loading is true exactly while a call of fn is at its await, under
\* any interleaving of calls.
C15_LoadingIffAwaiting == loading = (awaiting > 0)

\* A call that throws sets error and leaves data as it was.
ThrowKeepsData ==
    [][errorToasts' # errorToasts => error' = "Error" /\ transactionResult' = transactionResult]_vars

====
